---- MODULE Spec2Model ----
(***************************************************************************)
(* sign-queries (src/src/main.rs): scan a tree for *.graphql.ts files,     *)
(* extract each request descriptor's (name, text) with one of two          *)
(* extractors, HMAC the text and write a sorted name -> hex digest map.    *)
(*                                                                         *)
(* Representation.  A file's content is a sequence of lines.  A line is    *)
(* its run of leading whitespace characters (ws) followed by one of the    *)
(* shapes the generated files are made of (kind):                          *)
(*   "import"  import { ConcreteRequest } from 'relay-runtime';            *)
(*   "marker"  const node: ConcreteRequest = {                             *)
(*   "decl"    const node = {                                              *)
(*   "open"    "key": {                                                    *)
(*   "empty"   "key": {}            (with or without a trailing comma)     *)
(*   "str"     "key": "val"         (with or without a trailing comma)     *)
(*   "null"    "key": null          (with or without a trailing comma)     *)
(*   "close"   }                    (with or without a trailing comma)     *)
(*   "end"     };                                                          *)
(*   "junk"    @@                   (neither TypeScript nor JSON)          *)
(*   "lbrace"  {                    (only ever pushed by find_params)      *)
(*   "rest"    ConcreteRequest ...  (a marker line cut at the marker)      *)
(* String values (names, texts) are sequences of character codes, so that  *)
(* they can be compared the way BTreeMap<String, _> compares its keys.     *)
(***************************************************************************)
EXTENDS Integers, Sequences, FiniteSets, TLC

\* ------------------------------------------------------------------ bounds
\* Most files located in one run.
MaxFiles == 3
\* Threads of the pool (num_cpus::get() on the host).
PoolSize == 2

\* --------------------------------------------------------------- constants
\* enum Strategy
Strategies == {"Manual", "Swc"}

\* ------------------------------------------------------------------- lines
Line(ws, kind, key, val, comma) ==
    [ws |-> ws, kind |-> kind, key |-> key, val |-> val, comma |-> comma]

Spaces(n) == [i \in 1..n |-> " "]
Tabs(n) == [i \in 1..n |-> "\t"]

\* The "{" that find_params pushes in place of the params line.
LBrace == Line(<<>>, "lbrace", "", <<>>, FALSE)

\* The line's first character after its leading whitespace.
FirstChar(l) ==
    CASE l.kind \in {"import"} -> "i"
      [] l.kind \in {"marker", "decl"} -> "c"
      [] l.kind \in {"open", "empty", "str", "null"} -> "\""
      [] l.kind \in {"close", "end"} -> "}"
      [] l.kind = "lbrace" -> "{"
      [] l.kind = "rest" -> "C"
      [] OTHER -> "@"

\* The line's characters up to and including the first one that is not
\* whitespace: all that a prefix test against a run of spaces and one "}"
\* can depend on.
LineHead(l) == l.ws \o <<FirstChar(l)>>

\* str::starts_with
StartsWith(s, prefix) ==
    /\ Len(prefix) <= Len(s)
    /\ SubSeq(s, 1, Len(prefix)) = prefix

\* contents.find(CONCRETE_REQUEST): the index of the first line holding the
\* marker, 0 when there is none.
HasMarker(l) == l.kind \in {"import", "marker"}

MarkerLine(contents) ==
    IF \E i \in 1..Len(contents) : HasMarker(contents[i])
    THEN CHOOSE i \in 1..Len(contents) :
            /\ HasMarker(contents[i])
            /\ \A j \in 1..(i - 1) : ~HasMarker(contents[j])
    ELSE 0

\* &contents[concrete..] split by lines(): the first line starts at the
\* marker itself, so whatever preceded it on its line (its indentation
\* included) is gone.
RestLines(contents) ==
    LET m == MarkerLine(contents)
    IN  <<[contents[m] EXCEPT !.ws = <<>>, !.kind = "rest"]>>
            \o SubSeq(contents, m + 1, Len(contents))

\* line.trim().starts_with("\"params\": {")
IsParamsLine(l) == l.key = "params" /\ l.kind \in {"open", "empty"}

\* The count of leading characters with char::is_whitespace.
WsCount(l) == Len(l.ws)

\* A "}" after as many spaces as the width.
PadBrace(width) == Spaces(width) \o <<"}">>

\* format!("{0: >1$}", '}', width): "}" right-aligned in width columns,
\* padded on the left with spaces.
RightAlignBrace(width) == Spaces(IF width > 1 THEN width - 1 ELSE 0) \o <<"}">>

\* ------------------------------------------------------ textual extractor
\* The loops below are written      CHOOSE r \in {F(t) : t \in {e}} : TRUE
\* for F(e): the same value, with e evaluated once before F is entered.
\* The loop state of find_params: found_params (found, end), params, and
\* whether the loop has left through break.
ScanInit == [found |-> FALSE, end |-> <<>>, params |-> <<>>, stop |-> FALSE]

\* One iteration of `for line in rest.lines()`.
FindParamsStep(s, line) ==
    LET pushed == IF s.found THEN Append(s.params, line) ELSE s.params
    IN  IF s.found /\ StartsWith(LineHead(line), s.end)
        THEN [s EXCEPT !.params = pushed, !.stop = TRUE]
        ELSE IF IsParamsLine(line)
        THEN [found |-> TRUE,
              end |-> RightAlignBrace(WsCount(line) + 1),
              params |-> Append(pushed, LBrace),
              stop |-> FALSE]
        ELSE [s EXCEPT !.params = pushed]

RECURSIVE ScanFrom(_, _, _)
ScanFrom(lines, i, s) ==
    IF i > Len(lines) \/ s.stop THEN s
    ELSE CHOOSE r \in {ScanFrom(lines, i + 1, t) :
                        t \in {FindParamsStep(s, lines[i])}} : TRUE

\* A find_params that scans a content without the marker from its start.
find_params_unmarked(contents) ==
    CHOOSE r \in {[some |-> TRUE, raw |-> ScanFrom(rest, 1, ScanInit).params] :
                    rest \in {IF MarkerLine(contents) = 0 THEN contents
                               ELSE RestLines(contents)}} : TRUE

\* find_params: "None" without the marker, else the pushed pieces, which
\* join("") concatenates in order with nothing between them.
find_params(contents) ==
    IF MarkerLine(contents) = 0
    THEN [some |-> FALSE, raw |-> <<>>]
    ELSE CHOOSE r \in {[some |-> TRUE, raw |-> ScanFrom(rest, 1, ScanInit).params] :
                        rest \in {RestLines(contents)}} : TRUE

\* serde_json's reading of the joined pieces as one JSON value.  The state
\* is the nesting depth, what may come next ("value": nothing read yet,
\* "first": an entry or the closing brace, "more": an entry, "close": the
\* closing brace, "done": nothing), the entries of the outermost object in
\* order, and whether the text has been rejected.
JsonInit == [depth |-> 0, expect |-> "value", top |-> <<>>, err |-> FALSE]

JsonStep(j, p) ==
    LET bad   == [j EXCEPT !.err = TRUE]
        entry == j.depth >= 1 /\ j.expect \in {"first", "more"}
        seen  == IF j.depth = 1 THEN Append(j.top, p) ELSE j.top
    IN  IF j.err THEN j
        ELSE CASE p.kind = "lbrace" ->
                    IF j.expect = "value"
                    THEN [j EXCEPT !.depth = 1, !.expect = "first"]
                    ELSE bad
               [] p.kind \in {"str", "null", "empty"} ->
                    IF entry
                    THEN [j EXCEPT !.top = seen,
                                   !.expect = IF p.comma THEN "more" ELSE "close"]
                    ELSE bad
               [] p.kind = "open" ->
                    IF entry
                    THEN [j EXCEPT !.top = seen, !.depth = j.depth + 1,
                                   !.expect = "first"]
                    ELSE bad
               [] p.kind = "close" ->
                    IF j.depth >= 1 /\ j.expect \in {"first", "close"}
                    THEN IF j.depth = 1
                         THEN IF p.comma THEN bad
                              ELSE [j EXCEPT !.depth = 0, !.expect = "done"]
                         ELSE [j EXCEPT !.depth = j.depth - 1,
                                        !.expect = IF p.comma THEN "more" ELSE "close"]
                    ELSE bad
               [] OTHER -> bad

RECURSIVE JsonFrom(_, _, _)
JsonFrom(raw, i, j) ==
    IF i > Len(raw) THEN j
    ELSE CHOOSE r \in {JsonFrom(raw, i + 1, t) : t \in {JsonStep(j, raw[i])}} : TRUE

\* The entries of the outermost object with a given key.
Entries(top, key) == SelectSeq(top, LAMBDA p : p.key = key)

\* struct Params as serde derives its Deserialize: cacheID, name,
\* operationKind and text are String; metadata is a serde_json::Value (any
\* value, but it must be there); id is Option<String>; a key given twice is
\* rejected; keys the struct does not have are skipped.
ParamsFields == {"cacheID", "id", "metadata", "name", "operationKind", "text"}
StringFields == {"cacheID", "name", "operationKind", "text"}

\* A Params of which only name and text have to be there.
NameAndTextOk(top) ==
    \A k \in {"name", "text"} :
        /\ Len(Entries(top, k)) = 1
        /\ Entries(top, k)[1].kind = "str"

FieldsOk(top) ==
    /\ \A k \in ParamsFields : Len(Entries(top, k)) <= 1
    /\ \A k \in StringFields :
          /\ Len(Entries(top, k)) = 1
          /\ Entries(top, k)[1].kind = "str"
    /\ Len(Entries(top, "metadata")) = 1
    /\ \A i \in 1..Len(Entries(top, "id")) :
          Entries(top, "id")[i].kind \in {"str", "null"}

\* The outcomes of an extractor.
SomeParams(name, text) ==
    [tag |-> "Some", name |-> name, text |-> text, err |-> ""]
NoParams == [tag |-> "None", name |-> <<>>, text |-> <<>>, err |-> ""]
Failed(e) == [tag |-> "Err", name |-> <<>>, text |-> <<>>, err |-> e]
Panicked == [tag |-> "Panic", name |-> <<>>, text |-> <<>>, err |-> ""]

\* serde_json::from_str::<Params>(&raw_params).map_err(|_| ParamSerialization)
FromJson(j) ==
    IF ~j.err /\ j.expect = "done" /\ FieldsOk(j.top)
    THEN SomeParams(Entries(j.top, "name")[1].val, Entries(j.top, "text")[1].val)
    ELSE Failed("ParamSerialization")

\* A from_str whose failure is taken for the absence of a descriptor.
from_str_or_none(raw) ==
    CHOOSE r \in {IF ~j.err /\ j.expect = "done" /\ FieldsOk(j.top)
                   THEN FromJson(j) ELSE NoParams :
                    j \in {JsonFrom(raw, 1, JsonInit)}} : TRUE

from_str(raw) ==
    CHOOSE r \in {FromJson(j) : j \in {JsonFrom(raw, 1, JsonInit)}} : TRUE

\* A located file: whether it can be read, and its content.
File(readable, lines) == [readable |-> readable, lines |-> lines]

get_params(file) ==
    IF ~file.readable THEN Failed("IoError")
    ELSE CHOOSE r \in {IF found.some THEN from_str(found.raw) ELSE NoParams :
                        found \in {find_params(file.lines)}} : TRUE

\* --------------------------------------------------- structural extractor
\* parse_typescript_module over the whole content.  The state is the
\* nesting depth of object literals, what may come next (as for JSON, but
\* a comma may precede a closing brace), the key-value properties read so
\* far in source order, each with the depth it sits at, and whether the
\* parser has reported an error.
TsInit == [depth |-> 0, expect |-> "stmt", nodes |-> <<>>, err |-> FALSE]

KeyValueProp(l, depth) ==
    [key |-> l.key,
     vkind |-> IF l.kind \in {"open", "empty"} THEN "obj" ELSE l.kind,
     val |-> l.val,
     depth |-> depth]

TsStep(t, l) ==
    LET bad   == [t EXCEPT !.err = TRUE]
        entry == t.depth >= 1 /\ t.expect \in {"first", "more"}
        node  == Append(t.nodes, KeyValueProp(l, t.depth))
    IN  IF t.err THEN t
        ELSE CASE l.kind = "import" ->
                    IF t.depth = 0 THEN t ELSE bad
               [] l.kind \in {"marker", "decl"} ->
                    IF t.depth = 0
                    THEN [t EXCEPT !.depth = 1, !.expect = "first"]
                    ELSE bad
               [] l.kind \in {"str", "null", "empty"} ->
                    IF entry
                    THEN [t EXCEPT !.nodes = node,
                                   !.expect = IF l.comma THEN "more" ELSE "close"]
                    ELSE bad
               [] l.kind = "open" ->
                    IF entry
                    THEN [t EXCEPT !.nodes = node, !.depth = t.depth + 1,
                                   !.expect = "first"]
                    ELSE bad
               [] l.kind = "close" ->
                    IF t.depth >= 2
                    THEN [t EXCEPT !.depth = t.depth - 1,
                                   !.expect = IF l.comma THEN "more" ELSE "close"]
                    ELSE IF t.depth = 1 /\ ~l.comma
                    THEN [t EXCEPT !.depth = 0, !.expect = "stmt"]
                    ELSE bad
               [] l.kind = "end" ->
                    IF t.depth = 1
                    THEN [t EXCEPT !.depth = 0, !.expect = "stmt"]
                    ELSE bad
               [] OTHER -> bad

RECURSIVE TsFrom(_, _, _)
TsFrom(lines, i, t) ==
    IF i > Len(lines) THEN t
    ELSE CHOOSE r \in {TsFrom(lines, i + 1, u) : u \in {TsStep(t, lines[i])}} : TRUE

\* parser.parse_typescript_module(): an error, or the module's key-value
\* properties in the order a depth-first walk meets them.
parse_typescript_module(lines) ==
    CHOOSE r \in {[ok |-> ~t.err /\ t.depth = 0, nodes |-> t.nodes] :
                    t \in {TsFrom(lines, 1, TsInit)}} : TRUE

\* MyCollector::default()
MyCollector == [params |-> FALSE, name |-> <<>>, text |-> <<>>, done |-> 0]

\* A collector that goes on recording after two fields.
visit_after_done(v, n) ==
    IF ~v.params
    THEN IF n.key = "params" THEN [v EXCEPT !.params = TRUE] ELSE v
    ELSE IF n.key = "name" /\ n.vkind = "str"
    THEN [v EXCEPT !.name = n.val, !.done = v.done + 1]
    ELSE IF n.key = "text" /\ n.vkind = "str"
    THEN [v EXCEPT !.text = n.val, !.done = v.done + 1]
    ELSE v

\* MyCollector::visit_key_value_prop up to its call of visit_children_with.
\* Every key of the model is a string literal key (PropName::Str).
visit_key_value_prop(v, n) ==
    LET named == IF n.key = "name" /\ n.vkind = "str"
                 THEN [v EXCEPT !.name = n.val, !.done = v.done + 1]
                 ELSE v
        texted == IF n.key = "text" /\ n.vkind = "str"
                  THEN [named EXCEPT !.text = n.val, !.done = named.done + 1]
                  ELSE named
    IN  IF v.done = 2 THEN v
        ELSE IF v.params THEN texted
        ELSE IF n.key = "params" THEN [v EXCEPT !.params = TRUE]
        ELSE v

\* Whether the visit of node n goes on into its children: not after the
\* early return.
VisitsChildren(v) == v.done # 2

\* The first node after i that is not below node i.
SkipSubtree(nodes, i) ==
    IF \E j \in (i + 1)..Len(nodes) : nodes[j].depth <= nodes[i].depth
    THEN CHOOSE j \in (i + 1)..Len(nodes) :
            /\ nodes[j].depth <= nodes[i].depth
            /\ \A k \in (i + 1)..(j - 1) : nodes[k].depth > nodes[i].depth
    ELSE Len(nodes) + 1

\* The node visited after node i, given the collector as node i found it.
NextNode(nodes, i, v) ==
    IF VisitsChildren(v) THEN i + 1 ELSE SkipSubtree(nodes, i)

\* module.visit_with(&mut visitor)
RECURSIVE VisitFrom(_, _, _)
VisitFrom(nodes, i, v) ==
    IF i > Len(nodes) THEN v
    ELSE CHOOSE r \in {VisitFrom(nodes, NextNode(nodes, i, v), w) :
                        w \in {visit_key_value_prop(v, nodes[i])}} : TRUE

\* The end of get_params_swc: what the collector holds after the walk.
Collected(visitor) ==
    IF ~visitor.params \/ visitor.done < 2
    THEN NoParams
    ELSE SomeParams(visitor.name, visitor.text)

get_params_swc(file) ==
    IF ~file.readable THEN Panicked
    ELSE CHOOSE r \in
            {IF ~module.ok THEN Panicked
             ELSE CHOOSE c \in {Collected(visitor) :
                     visitor \in {VisitFrom(module.nodes, 1, MyCollector)}} : TRUE :
                module \in {parse_typescript_module(file.lines)}} : TRUE

\* ------------------------------------------------------------------ signer
\* ring::hmac::sign(&key, text.as_bytes()): a keyed hash of the bytes, here
\* two bytes wide.  It stands for HMAC-SHA256 in being a function of the key
\* and of every byte of the text.
RECURSIVE HmacFrom(_, _, _)
HmacFrom(bytes, i, h) ==
    IF i > Len(bytes) THEN h
    ELSE HmacFrom(bytes, i + 1, (h * 31 + bytes[i] + 7) % 65536)

sign(key, bytes) ==
    LET h == HmacFrom(bytes, 1, (key * 257 + Len(bytes)) % 65536)
    IN  <<h \div 256, h % 256>>

\* HEXLOWER.encode: two lowercase hexadecimal digits for each byte.
HexDigits ==
    <<"0", "1", "2", "3", "4", "5", "6", "7", "8", "9", "a", "b", "c", "d", "e", "f">>

RECURSIVE HexFrom(_, _)
HexFrom(bytes, i) ==
    IF i > Len(bytes) THEN <<>>
    ELSE <<HexDigits[(bytes[i] \div 16) + 1], HexDigits[(bytes[i] % 16) + 1]>>
            \o HexFrom(bytes, i + 1)

HEXLOWER_encode(bytes) == HexFrom(bytes, 1)

\* compute_digest: Ok(Some((tag, name))), Ok(None), Err(e), or a panic of
\* the unit of work (the unwrap()s of get_params_swc).
Digest(tag, name) == [tag |-> "Some", sha |-> tag, name |-> name, err |-> ""]
NoDigest == [tag |-> "None", sha |-> <<>>, name |-> <<>>, err |-> ""]
DigestErr(e) == [tag |-> "Err", sha |-> <<>>, name |-> <<>>, err |-> e]
DigestPanic == [tag |-> "Panic", sha |-> <<>>, name |-> <<>>, err |-> ""]

\* A unit that signs the name in place of the text.
compute_digest_of_name(file, k, s) ==
    CHOOSE r \in
        {CASE params.tag = "Some" -> Digest(sign(k, params.name), params.name)
           [] params.tag = "None" -> NoDigest
           [] params.tag = "Err" -> DigestErr(params.err)
           [] OTHER -> DigestPanic :
         params \in {IF s = "Swc" THEN get_params_swc(file) ELSE get_params(file)}} : TRUE

compute_digest(file, k, s) ==
    CHOOSE r \in
        {CASE params.tag = "Some" -> Digest(sign(k, params.text), params.name)
           [] params.tag = "None" -> NoDigest
           [] params.tag = "Err" -> DigestErr(params.err)
           [] OTHER -> DigestPanic :
         params \in {IF s = "Swc" THEN get_params_swc(file) ELSE get_params(file)}} : TRUE

\* ------------------------------------------------------------------ inputs
\* String values: names and texts as character codes.
FooQuery == <<1, 2>>
BarQuery == <<1>>
MetaName == <<3>>
QueryFoo == <<4, 5>>
QueryBar == <<4>>
Other == <<6>>

\* An item of an object literal: a key with a string, null, {} or a nested
\* object literal of items.
Str(key, val) == [kind |-> "str", key |-> key, val |-> val, kids |-> <<>>]
Null(key) == [kind |-> "null", key |-> key, val |-> <<>>, kids |-> <<>>]
Empty(key) == [kind |-> "empty", key |-> key, val |-> <<>>, kids |-> <<>>]
Obj(key, kids) == [kind |-> "obj", key |-> key, val |-> <<>>, kids |-> kids]

\* The indentation of depth d in a style: two spaces, four spaces or one
\* tab for each level; "flat" is no indentation at all.
Styles == {"sp2", "sp4", "tab"}
Indent(style, d) ==
    CASE style = "sp2" -> Spaces(2 * d)
      [] style = "sp4" -> Spaces(4 * d)
      [] style = "flat" -> <<>>
      [] OTHER -> Tabs(d)

\* Items pretty-printed one to a line, every item but the last followed by
\* a comma, nested items one level deeper, the closing brace of an object
\* at the indentation of its key.
RECURSIVE Render(_, _, _, _)
Render(items, i, d, style) ==
    IF i > Len(items) THEN <<>>
    ELSE LET it   == items[i]
             more == i < Len(items)
         IN  (IF it.kind = "obj"
              THEN <<Line(Indent(style, d), "open", it.key, <<>>, FALSE)>>
                     \o Render(it.kids, 1, d + 1, style)
                     \o <<Line(Indent(style, d), "close", "", <<>>, more)>>
              ELSE <<Line(Indent(style, d), it.kind, it.key, it.val, more)>>)
             \o Render(items, i + 1, d, style)

Import == Line(<<>>, "import", "", <<>>, FALSE)
Marker == Line(<<>>, "marker", "", <<>>, FALSE)
Decl == Line(<<>>, "decl", "", <<>>, FALSE)
End == Line(<<>>, "end", "", <<>>, FALSE)
Junk == Line(<<>>, "junk", "", <<>>, FALSE)

\* A generated module: the declaration of the request (typed with the
\* marker or not) and its object literal.
Module(marked, items, style) ==
    <<IF marked THEN Marker ELSE Decl>> \o Render(items, 1, 1, style) \o <<End>>

\* The params object of a request: the auxiliary fields, then name and
\* text, as the generator orders them (by key).
ParamsOf(meta, name, text) ==
    Obj("params",
        <<Str("cacheID", Other), Null("id"), meta, Str("name", name),
          Str("operationKind", Other), Str("text", text)>>)

\* The forms of the metadata field.
Metas ==
    {Empty("metadata"),
     Obj("metadata", <<Str("plural", Other)>>),
     Obj("metadata", <<Str("name", MetaName)>>),
     Obj("metadata", <<Str("text", MetaName)>>)}

\* What may precede params in the request: nothing, or the operation with
\* its own name.
Preludes ==
    {<<>>,
     <<Str("kind", Other), Obj("operation", <<Str("name", FooQuery)>>)>>}

\* Well-formed, consistently indented descriptors: the marker, and a
\* pretty-printed params object, last in the request, with every field of
\* the generator, name and text strings.
Descriptor(pre, meta, name, text, style) ==
    Module(TRUE, pre \o <<ParamsOf(meta, name, text)>>, style)

Generated ==
    {Descriptor(pre, meta, name, text, style) :
        pre \in Preludes, meta \in Metas, name \in {FooQuery, BarQuery},
        text \in {QueryFoo, <<>>}, style \in Styles}

\* The same, and the same after the import of the marker's type.
WellFormed == Generated \cup {<<Import>> \o d : d \in Generated}

\* Contents with neither the marker nor a property keyed "params".
Unmarked ==
    {<<>>,
     <<Junk>>,
     <<Decl, Junk, End>>,
     <<Decl>>,
     Module(FALSE, <<Str("name", FooQuery), Str("text", QueryFoo)>>, "sp2"),
     Module(FALSE, <<Obj("operation", <<Str("name", FooQuery)>>)>>, "sp2"),
     Module(FALSE, <<Str("kind", Other)>>, "tab"),
     Module(FALSE, <<>>, "sp2")}

\* The fields of a complete params object.
Full ==
    <<Str("cacheID", Other), Null("id"), Empty("metadata"), Str("name", FooQuery),
      Str("operationKind", Other), Str("text", QueryFoo)>>

Without(items, key) == SelectSeq(items, LAMBDA it : it.key # key)

With(items, key, item) ==
    [i \in 1..Len(items) |-> IF items[i].key = key THEN item ELSE items[i]]

\* Other things a request may hold under the key "params": an object with
\* a field left out, with name or text not a string, with id a string,
\* with name and text alone, with two names and no text, with a property
\* keyed "params" inside it; an empty object; a string.
ParamsForms ==
    {Obj("params", Without(Full, k)) :
        k \in {"cacheID", "id", "metadata", "name", "operationKind", "text"}}
    \cup
    {Obj("params", With(Full, "text", Null("text"))),
     Obj("params", With(Full, "name", Null("name"))),
     Obj("params", With(Full, "id", Str("id", Other))),
     Obj("params", <<Str("name", FooQuery), Str("text", QueryFoo)>>),
     Obj("params", <<Str("name", FooQuery), Str("name", BarQuery)>>),
     Obj("params", With(Full, "metadata",
                        Obj("metadata", <<Obj("params", <<Str("plural", Other)>>)>>))),
     Empty("params"),
     Str("params", Other)}

\* What may follow params in the request: nothing, a string keyed "text",
\* or an object with a name and, one level down, a text.
Sequels ==
    {<<>>,
     <<Str("text", MetaName)>>,
     <<Obj("extra", <<Str("name", MetaName),
                      Obj("deep", <<Str("text", MetaName)>>)>>)>>}

\* Requests that parse as TypeScript and are not what the generator
\* writes: the forms above, and the complete params object followed by
\* something.
Variants ==
    {Module(TRUE, pre \o <<form>> \o post, style) :
        pre \in Preludes, form \in ParamsForms, post \in Sequels,
        style \in {"sp2", "flat"}}
    \cup
    {Module(TRUE, <<Obj("params", Full)>> \o post, style) :
        post \in Sequels, style \in {"sp2", "flat"}}

\* Marked contents that are not TypeScript: no params line at all; and a
\* params block whose closing brace is deeper than its key and ends the
\* content.
Broken ==
    {<<Marker>>,
     <<Marker, End>>,
     <<Marker, Junk, End>>,
     <<Marker, Line(Spaces(2), "open", "params", <<>>, FALSE)>>
        \o Render(Full, 1, 2, "sp2")
        \o <<Line(Spaces(4), "close", "", <<>>, FALSE)>>}

\* The files a run may locate, by number: two requests, a third with the
\* name of the first and another text, a module that is no request, a
\* marked file that is neither TypeScript nor holds a params block, and a
\* file that cannot be read.
SampleIds == 1..6
Sample(id) ==
    CASE id = 1 -> File(TRUE, Descriptor(<<>>, Empty("metadata"), FooQuery, QueryFoo, "sp2"))
      [] id = 2 -> File(TRUE, Descriptor(<<>>, Empty("metadata"), BarQuery, QueryBar, "sp2"))
      [] id = 3 -> File(TRUE, Descriptor(<<>>, Empty("metadata"), FooQuery, QueryBar, "sp2"))
      [] id = 4 -> File(TRUE, Module(FALSE, <<Str("kind", Other)>>, "sp2"))
      [] id = 5 -> File(TRUE, <<Marker, Junk, End>>)
      [] OTHER -> File(FALSE, <<>>)

\* The signing keys a run may be given.
Keys == {1, 2}

\* compute_digest on a located file.
DigestOf(id, k, s) ==
    CHOOSE r \in {compute_digest(file, k, s) : file \in {Sample(id)}} : TRUE

\* ---------------------------------------------------------------- ordering
\* String's Ord: lexicographic on the characters, a proper prefix first.
RECURSIVE LexLess(_, _)
LexLess(a, b) ==
    IF a = <<>> THEN b # <<>>
    ELSE IF b = <<>> THEN FALSE
    ELSE IF Head(a) # Head(b) THEN Head(a) < Head(b)
    ELSE LexLess(Tail(a), Tail(b))

\* BTreeMap<String, String> as the sequence of its entries in iteration
\* order.  insert replaces the value of a key that is there and puts a new
\* key at its place in the order.
Entry(name, hash) == [name |-> name, hash |-> hash]

HasKey(m, name) == \E i \in 1..Len(m) : m[i].name = name

\* A map that keeps its entries in the order they came.
insert_unsorted(m, name, hash) ==
    IF HasKey(m, name)
    THEN [i \in 1..Len(m) |-> IF m[i].name = name THEN Entry(name, hash) ELSE m[i]]
    ELSE Append(m, Entry(name, hash))

\* A map that puts a new key first.
insert_first(m, name, hash) ==
    IF HasKey(m, name)
    THEN [i \in 1..Len(m) |-> IF m[i].name = name THEN Entry(name, hash) ELSE m[i]]
    ELSE <<Entry(name, hash)>> \o m

\* A sorted multimap: a key that is there is entered again.
insert_again(m, name, hash) ==
    LET below == SelectSeq(m, LAMBDA e : LexLess(e.name, name) \/ e.name = name)
        above == SelectSeq(m, LAMBDA e : LexLess(name, e.name))
    IN  below \o <<Entry(name, hash)>> \o above

\* A map that keeps the value a key already has.
insert_keep(m, name, hash) ==
    IF HasKey(m, name)
    THEN m
    ELSE LET below == SelectSeq(m, LAMBDA e : LexLess(e.name, name))
             above == SelectSeq(m, LAMBDA e : LexLess(name, e.name))
         IN  below \o <<Entry(name, hash)>> \o above

insert(m, name, hash) ==
    IF HasKey(m, name)
    THEN [i \in 1..Len(m) |-> IF m[i].name = name THEN Entry(name, hash) ELSE m[i]]
    ELSE LET below == SelectSeq(m, LAMBDA e : LexLess(e.name, name))
             above == SelectSeq(m, LAMBDA e : LexLess(name, e.name))
         IN  below \o <<Entry(name, hash)>> \o above

\* ---------------------------------------------------------------- pipeline
VARIABLES
    files,       \* the located files in the order of the walk (sample numbers)
    key,         \* the signing key
    strategy,    \* the extraction strategy
    pc,          \* where main is: "walk", "drop", "recv", "create", "serialize", "returned"
    ret,         \* what main returned: "" (not yet), "Ok" or the Error
    job,         \* each unit of work: "none", "queued", "computed", "sent",
                 \*   "panicked", "send_panicked", "killed"
    digest,      \* each unit's compute_digest result
    chan,        \* the messages sent and not yet received
    txMain,      \* main's Sender is alive
    rxAlive,     \* the Receiver is alive
    signatures,  \* the collector's map
    out,         \* the output file
    recvd,       \* history: the messages received, in order
    exited       \* the process has exited

pvars == <<files, key, strategy, pc, ret, job, digest, chan, txMain, rxAlive,
           signatures, out, recvd, exited>>

\* One file taken through both extractors, a line and a node at a time.
VARIABLES
    xfile,       \* the file
    xpc,         \* "idle", "start", "scan", "scanned", "visit", "done"
    scan,        \* the loop state of find_params
    scanI,       \* the line of rest the loop is at
    collector,   \* the MyCollector
    visitI,      \* the node the walk is at
    visited,     \* history: the nodes visit_key_value_prop was called on
    manualRes,   \* what get_params returned
    swcRes       \* what get_params_swc returned

xvars == <<xfile, xpc, scan, scanI, collector, visitI, visited, manualRes, swcRes>>

vars == <<pvars, xvars>>

\* The extractor variables while the pipeline runs.
XIdle ==
    /\ xfile = File(TRUE, <<>>)
    /\ xpc = "idle"
    /\ scan = ScanInit
    /\ scanI = 0
    /\ collector = MyCollector
    /\ visitI = 0
    /\ visited = {}
    /\ manualRes = NoParams
    /\ swcRes = NoParams

N == Len(files)
Units == 1..N

\* The output path before File::create.
Untouched == [state |-> "untouched", entries |-> <<>>]

RECURSIVE SeqsUpTo(_, _)
SeqsUpTo(S, n) ==
    IF n = 0 THEN {<<>>}
    ELSE SeqsUpTo(S, n - 1)
            \cup {Append(q, x) : q \in {r \in SeqsUpTo(S, n - 1) : Len(r) = n - 1}, x \in S}

Init ==
    /\ files \in SeqsUpTo(SampleIds, MaxFiles)
    /\ key \in Keys
    /\ strategy \in Strategies
    /\ pc = "walk"
    /\ ret = ""
    /\ job = [i \in 1..Len(files) |-> "none"]
    /\ digest = [i \in 1..Len(files) |-> NoDigest]
    /\ chan = <<>>
    /\ txMain = TRUE
    /\ rxAlive = TRUE
    /\ signatures = <<>>
    /\ out = Untouched
    /\ recvd = <<>>
    /\ exited = FALSE
    /\ XIdle

\* The next entry of the walk: tx.clone() and pool.execute(...).
Submitted == Cardinality({i \in Units : job[i] # "none"})

Submit ==
    /\ ~exited /\ pc = "walk" /\ Submitted < N
    /\ job' = [job EXCEPT ![Submitted + 1] = "queued"]
    /\ UNCHANGED <<files, key, strategy, pc, ret, digest, chan, txMain, rxAlive,
                   signatures, out, recvd, exited>>
    /\ UNCHANGED xvars

\* The walk is over: drop(tx).
DropTx ==
    /\ ~exited /\ pc = "walk" /\ Submitted = N
    /\ txMain' = FALSE
    /\ pc' = "recv"
    /\ UNCHANGED <<files, key, strategy, ret, job, digest, chan, rxAlive,
                   signatures, out, recvd, exited>>
    /\ UNCHANGED xvars

\* A thread of the pool is free when fewer than PoolSize units hold one; a
\* unit holds its thread from compute_digest until its send returns.
Busy == Cardinality({i \in Units : job[i] = "computed"})

\* The pool hands out its jobs in the order they were submitted.
NextQueued(i) ==
    /\ job[i] = "queued"
    /\ \A j \in 1..(i - 1) : job[j] # "queued"

\* A unit of work that puts its own result in the collector's map.
Run_inserting(i) ==
    /\ ~exited /\ NextQueued(i) /\ Busy < PoolSize
    /\ LET d == DigestOf(files[i], key, strategy)
       IN  /\ digest' = [digest EXCEPT ![i] = d]
           /\ job' = [job EXCEPT ![i] = IF d.tag = "Panic" THEN "panicked" ELSE "computed"]
           /\ signatures' = IF d.tag = "Some"
                              THEN insert(signatures, d.name, HEXLOWER_encode(d.sha))
                              ELSE signatures
    /\ UNCHANGED <<files, key, strategy, pc, ret, chan, txMain, rxAlive,
                   out, recvd, exited>>
    /\ UNCHANGED xvars

\* A thread takes unit i and runs compute_digest; a panic unwinds the
\* closure, which drops its Sender, and the pool replaces the thread.
Run(i) ==
    /\ ~exited /\ NextQueued(i) /\ Busy < PoolSize
    /\ LET d == DigestOf(files[i], key, strategy)
       IN  /\ digest' = [digest EXCEPT ![i] = d]
           /\ job' = [job EXCEPT ![i] = IF d.tag = "Panic" THEN "panicked" ELSE "computed"]
    /\ UNCHANGED <<files, key, strategy, pc, ret, chan, txMain, rxAlive,
                   signatures, out, recvd, exited>>
    /\ UNCHANGED xvars

\* A send that succeeds with the Receiver gone.
SendAlways == TRUE

\* Sender::send on the unbounded channel: it fails only when the Receiver
\* is gone.
SendOk == rxAlive

\* tx.send(digest).expect("Could not send data!")
Send(i) ==
    /\ ~exited /\ job[i] = "computed"
    /\ IF SendOk
       THEN /\ chan' = Append(chan, digest[i])
            /\ job' = [job EXCEPT ![i] = "sent"]
       ELSE /\ chan' = chan
            /\ job' = [job EXCEPT ![i] = "send_panicked"]
    /\ UNCHANGED <<files, key, strategy, pc, ret, digest, txMain, rxAlive,
                   signatures, out, recvd, exited>>
    /\ UNCHANGED xvars

\* A collector that skips an Err instead of returning it.
PropagatesNothing(t) == FALSE

\* `t?`: an Err received is returned from main.
Propagates(t) == t.tag = "Err"

\* One turn of `for t in rx.iter()` with a message waiting.
Recv ==
    /\ ~exited /\ pc = "recv" /\ chan # <<>>
    /\ LET t == Head(chan)
       IN  /\ chan' = Tail(chan)
           /\ recvd' = Append(recvd, t)
           /\ IF Propagates(t)
              THEN /\ pc' = "returned"
                   /\ ret' = t.err
                   /\ rxAlive' = FALSE
                   /\ UNCHANGED signatures
              ELSE /\ signatures' =
                        IF t.tag = "Some"
                        THEN insert(signatures, t.name, HEXLOWER_encode(t.sha))
                        ELSE signatures
                   /\ UNCHANGED <<pc, ret, rxAlive>>
    /\ UNCHANGED <<files, key, strategy, job, digest, txMain, out, exited>>
    /\ UNCHANGED xvars

\* A channel that counts main's Sender alone.
DisconnectedMainOnly == ~txMain

\* Every Sender is gone: main's, and the clone of each unit that has
\* neither finished nor unwound.
Disconnected ==
    /\ ~txMain
    /\ \A i \in Units : job[i] \notin {"queued", "computed"}

\* rx.iter() ends: the channel is empty and disconnected.
RecvClosed ==
    /\ ~exited /\ pc = "recv" /\ chan = <<>> /\ Disconnected
    /\ pc' = "create"
    /\ UNCHANGED <<files, key, strategy, ret, job, digest, chan, txMain, rxAlive,
                   signatures, out, recvd, exited>>
    /\ UNCHANGED xvars

\* File::create(output_file): the file is there and empty, or the call
\* fails and main returns SignatureFileCreation.
CreateFile ==
    /\ ~exited /\ pc = "create"
    /\ \/ /\ out' = [state |-> "truncated", entries |-> <<>>]
          /\ pc' = "serialize"
          /\ UNCHANGED <<ret, rxAlive>>
       \/ /\ pc' = "returned"
          /\ ret' = "SignatureFileCreation"
          /\ rxAlive' = FALSE
          /\ UNCHANGED out
    /\ UNCHANGED <<files, key, strategy, job, digest, chan, txMain,
                   signatures, recvd, exited>>
    /\ UNCHANGED xvars

\* signatures.serialize(&mut ser) into the BufWriter, and the flush when
\* the writer is dropped: every entry in the map's order; or a write fails
\* and main returns SignatureSerialization with some of the entries in the
\* file; or the flush on drop fails, which nothing reports.
Serialize ==
    /\ ~exited /\ pc = "serialize"
    /\ pc' = "returned"
    /\ rxAlive' = FALSE
    /\ \/ /\ out' = [state |-> "written", entries |-> signatures]
          /\ ret' = "Ok"
       \/ \E k \in 0..Len(signatures) :
             /\ out' = [state |-> "partial", entries |-> SubSeq(signatures, 1, k)]
             /\ ret' \in {"SignatureSerialization", "Ok"}
    /\ UNCHANGED <<files, key, strategy, job, digest, chan, txMain,
                   signatures, recvd, exited>>
    /\ UNCHANGED xvars

\* main has returned and the process exits: no thread of the pool is
\* joined, so the units still queued or running end here.
Exit ==
    /\ ~exited /\ pc = "returned"
    /\ exited' = TRUE
    /\ job' = [i \in Units |->
                  IF job[i] \in {"queued", "computed"} THEN "killed" ELSE job[i]]
    /\ UNCHANGED <<files, key, strategy, pc, ret, digest, chan, txMain, rxAlive,
                   signatures, out, recvd>>
    /\ UNCHANGED xvars

Main == Submit \/ DropTx \/ Recv \/ RecvClosed \/ CreateFile \/ Serialize \/ Exit

Worker(i) == Run(i) \/ Send(i)

Next == Main \/ \E i \in 1..MaxFiles : i <= N /\ Worker(i)

Spec == Init /\ [][Next]_vars

\* -------------------------------------------------------------- extraction
\* The contents the extractors are run on.
Contents == WellFormed \cup Unmarked \cup Variants \cup Broken

\* The pipeline variables while one file is taken through the extractors.
PIdle ==
    /\ files = <<>>
    /\ key = 1
    /\ strategy = "Manual"
    /\ pc = "idle"
    /\ ret = ""
    /\ job = <<>>
    /\ digest = <<>>
    /\ chan = <<>>
    /\ txMain = FALSE
    /\ rxAlive = FALSE
    /\ signatures = <<>>
    /\ out = Untouched
    /\ recvd = <<>>
    /\ exited = FALSE

XInit ==
    /\ PIdle
    /\ xfile \in {File(TRUE, c) : c \in Contents} \cup {File(FALSE, <<>>)}
    /\ xpc = "start"
    /\ scan = ScanInit
    /\ scanI = 0
    /\ collector = MyCollector
    /\ visitI = 0
    /\ visited = {}
    /\ manualRes = NoParams
    /\ swcRes = NoParams

\* get_params up to the loop of find_params: read_to_string, and the
\* search for the marker.
XBegin ==
    /\ xpc = "start"
    /\ IF ~xfile.readable
       THEN /\ manualRes' = Failed("IoError")
            /\ xpc' = "scanned"
            /\ UNCHANGED scanI
       ELSE IF MarkerLine(xfile.lines) = 0
       THEN /\ manualRes' = NoParams
            /\ xpc' = "scanned"
            /\ UNCHANGED scanI
       ELSE /\ xpc' = "scan"
            /\ scanI' = 1
            /\ UNCHANGED manualRes
    /\ UNCHANGED <<pvars, xfile, scan, collector, visitI, visited, swcRes>>

\* One line of the loop of find_params.
XScanLine ==
    /\ xpc = "scan" /\ ~scan.stop /\ scanI <= Len(RestLines(xfile.lines))
    /\ scan' = FindParamsStep(scan, RestLines(xfile.lines)[scanI])
    /\ scanI' = scanI + 1
    /\ UNCHANGED <<pvars, xfile, xpc, collector, visitI, visited, manualRes, swcRes>>

\* The loop is left: join, and from_str in get_params.
XScanEnd ==
    /\ xpc = "scan" /\ (scan.stop \/ scanI > Len(RestLines(xfile.lines)))
    /\ manualRes' = from_str(scan.params)
    /\ xpc' = "scanned"
    /\ UNCHANGED <<pvars, xfile, scan, scanI, collector, visitI, visited, swcRes>>

\* get_params_swc up to the walk: load_file(..).unwrap() and
\* parse_typescript_module().unwrap().
XParse ==
    /\ xpc = "scanned"
    /\ IF xfile.readable /\ parse_typescript_module(xfile.lines).ok
       THEN /\ xpc' = "visit"
            /\ visitI' = 1
            /\ UNCHANGED swcRes
       ELSE /\ xpc' = "done"
            /\ swcRes' = Panicked
            /\ UNCHANGED visitI
    /\ UNCHANGED <<pvars, xfile, scan, scanI, collector, visited, manualRes>>

XNodes == parse_typescript_module(xfile.lines).nodes

\* The walk calls visit_key_value_prop on the next node.
XVisit ==
    /\ xpc = "visit" /\ visitI <= Len(XNodes)
    /\ collector' = visit_key_value_prop(collector, XNodes[visitI])
    /\ visited' = visited \cup {visitI}
    /\ visitI' = NextNode(XNodes, visitI, collector)
    /\ UNCHANGED <<pvars, xfile, xpc, scan, scanI, manualRes, swcRes>>

\* The walk is over: the end of get_params_swc.
XVisitEnd ==
    /\ xpc = "visit" /\ visitI > Len(XNodes)
    /\ swcRes' = IF ~collector.params \/ collector.done < 2
                  THEN NoParams
                  ELSE SomeParams(collector.name, collector.text)
    /\ xpc' = "done"
    /\ UNCHANGED <<pvars, xfile, scan, scanI, collector, visitI, visited, manualRes>>

XNext == XBegin \/ XScanLine \/ XScanEnd \/ XParse \/ XVisit \/ XVisitEnd

ExtractSpec == XInit /\ [][XNext]_vars

\* The walk and the loop, a step at a time, return what get_params and
\* get_params_swc return.
StepwiseAgrees ==
    xpc = "done" =>
        /\ manualRes = get_params(xfile)
        /\ swcRes = get_params_swc(xfile)

\* Main and the threads of the pool run: while some step is possible, a
\* step is taken.
FairSpec == Init /\ [][Next]_vars /\ WF_vars(Next)

\* ------------------------------------------------------------------ claims
\* The errors a unit of work can send.
FileErrors == {"IoError", "ParamSerialization"}

\* What the selected extractor returns for a file.
Extract(f) == IF strategy = "Swc" THEN get_params_swc(f) ELSE get_params(f)

\* The descriptors extracted from the located files.
Descriptors ==
    {d \in {Extract(Sample(files[i])) : i \in Units} : d.tag = "Some"}

\* C1: once the collector has received an Err, it was the last message it
\* received, main has returned that very error, and the output path has
\* not been created or written, whatever was received before and whatever
\* is still in the channel.
C1_ErrorAborts ==
    \A i \in 1..Len(recvd) :
        recvd[i].tag = "Err" =>
            /\ i = Len(recvd)
            /\ pc = "returned"
            /\ ret = recvd[i].err
            /\ out = Untouched

\* An Err received after a successful result, with a message never
\* received, and the process gone.
C1_Witness ==
    /\ exited
    /\ Len(recvd) >= 2
    /\ recvd[1].tag = "Some"
    /\ recvd[Len(recvd)].tag = "Err"
    /\ chan # <<>>

\* A file the structural strategy cannot load or parse.
Unparsable(f) == ~f.readable \/ ~parse_typescript_module(f.lines).ok

\* C2: under the structural strategy a located file that cannot be loaded
\* or parsed is fatal: the run does not return Ok and the output path is
\* never created or written.
C2_SwcParseFailureFatal ==
    (strategy = "Swc" /\ \E i \in Units : Unparsable(Sample(files[i])))
        => (ret # "Ok" /\ out = Untouched)

\* The lowercase hexadecimal digits.
LowerHex ==
    {"0", "1", "2", "3", "4", "5", "6", "7", "8", "9", "a", "b", "c", "d", "e", "f"}

\* C3: a written output has exactly the names of the descriptors extracted
\* from the located files as its keys, and each value is the lowercase hex
\* of sign(key, text) for the text of a located file whose descriptor has
\* that name.
C3_OutputIsTheDescriptors ==
    out.state = "written" =>
        LET ds == Descriptors
        IN  /\ {out.entries[i].name : i \in 1..Len(out.entries)}
                  = {d.name : d \in ds}
            /\ \A i \in 1..Len(out.entries) :
                  /\ \E d \in ds :
                        /\ d.name = out.entries[i].name
                        /\ out.entries[i].hash
                              = HEXLOWER_encode(sign(key, d.text))
                  /\ Len(out.entries[i].hash) = 4
                  /\ \A c \in 1..Len(out.entries[i].hash) :
                        out.entries[i].hash[c] \in LowerHex

\* A written output of two entries, from a run that also located a file
\* with no descriptor.
C3_Witness ==
    /\ out.state = "written"
    /\ Len(out.entries) = 2
    /\ \E i \in Units : Extract(Sample(files[i])).tag = "None"

\* The map after the results of the located files are inserted in the
\* order of the walk: the output of the run whose results arrive in the
\* order they were submitted.
RECURSIVE InWalkOrder(_)
InWalkOrder(n) ==
    IF n = 0 THEN <<>>
    ELSE LET d == compute_digest(Sample(files[n]), key, strategy)
         IN  IF d.tag = "Some"
             THEN insert(InWalkOrder(n - 1), d.name, HEXLOWER_encode(d.sha))
             ELSE InWalkOrder(n - 1)

\* C4 as stated: every run that writes the output writes what the run in
\* submission order writes.
C4_SameOutputEveryRun ==
    out.state = "written" => out.entries = InWalkOrder(N)

\* Two located files yield the same name with different texts.
NameCollision ==
    \E d, e \in Descriptors : d.name = e.name /\ d.text # e.text

\* C4 as amended: when no two located files yield the same name with
\* different texts, every run that writes the output writes what the run
\* in submission order writes.
C4_SameOutputWithoutCollision ==
    (out.state = "written" /\ ~NameCollision) => out.entries = InWalkOrder(N)

\* An output of two entries written after the result of the second file
\* was received first.
C4_Witness ==
    /\ out.state = "written"
    /\ ~NameCollision
    /\ Len(out.entries) >= 2
    /\ N >= 2
    /\ recvd[1].tag = "Some"
    /\ recvd[1].name # Extract(Sample(files[1])).name

\* The entries of a map with a given name.
Count(m, name) == Cardinality({i \in 1..Len(m) : m[i].name = name})

\* C5: the collector's map never holds two entries of one name, and a
\* written output holds exactly one entry for every name a located file
\* yields, also when several files yield it.
C5_OneEntryPerName ==
    /\ \A i \in 1..Len(signatures) : Count(signatures, signatures[i].name) = 1
    /\ out.state = "written" =>
          \A d \in Descriptors : Count(out.entries, d.name) = 1

\* Two results of one name and different digests received, and the output
\* written.
C5_Witness ==
    /\ out.state = "written"
    /\ \E i, j \in 1..Len(recvd) :
          /\ i < j
          /\ recvd[i].tag = "Some" /\ recvd[j].tag = "Some"
          /\ recvd[i].name = recvd[j].name
          /\ recvd[i].sha # recvd[j].sha

\* The keys of a map are in strictly ascending order.
Ascending(m) == \A i \in 1..(Len(m) - 1) : LexLess(m[i].name, m[i + 1].name)

\* C6: the keys of whatever has been serialized to the output are in
\* ascending lexicographic order.
C6_KeysAscending ==
    out.state \in {"written", "partial"} => Ascending(out.entries)

\* An output written after a name was received before a smaller one.
C6_Witness ==
    /\ out.state = "written"
    /\ \E i, j \in 1..Len(recvd) :
          /\ i < j
          /\ recvd[i].tag = "Some" /\ recvd[j].tag = "Some"
          /\ LexLess(recvd[j].name, recvd[i].name)

\* C7: on a well-formed, consistently indented descriptor both extractors
\* return a descriptor, with the same name and the same text.
C7_ExtractorsAgree ==
    (xpc = "done" /\ xfile.readable /\ xfile.lines \in WellFormed) =>
        /\ manualRes.tag = "Some"
        /\ swcRes.tag = "Some"
        /\ manualRes.name = swcRes.name
        /\ manualRes.text = swcRes.text

\* A content with neither the marker nor a property keyed "params".
Unmarkable(lines) ==
    \A i \in 1..Len(lines) : ~HasMarker(lines[i]) /\ lines[i].key # "params"

C9_ReceiveLoopEnds ==
    /\ (pc = "recv") ~> (pc # "recv")
    /\ [](\A i \in 1..MaxFiles :
            (i <= N /\ job[i] = "computed" /\ ~exited) => ENABLED Send(i))
    /\ []((pc \in {"create", "serialize"} \/ (pc = "returned" /\ ret \notin FileErrors))
            => /\ ~txMain
               /\ \A i \in Units : job[i] \in {"sent", "panicked"}
               /\ chan = <<>>
               /\ Len(recvd) = Cardinality({i \in Units : job[i] = "sent"}))

\* The loop ended by the channel closing, after two messages were received
\* and one unit of work had panicked.
C9_Witness ==
    /\ pc = "create"
    /\ Len(recvd) = 2
    /\ \E i \in Units : job[i] = "panicked"

\* C10 as stated: when the run is abandoned on an error received, every
\* unit of work submitted has sent its result by the time the process
\* exits.
C10_SubmittedUnitsComplete ==
    (exited /\ ret \in FileErrors) => \A i \in Units : job[i] = "sent"

\* C10 as amended: main returns the error without waiting for the pool;
\* from then on no unit sends a result (the channel, the map and the
\* output stay as they are, and a send then fails), and once the process
\* has exited no unit moves.
C10_NoResultAfterAbandon ==
    [][/\ ret \in FileErrors =>
            /\ chan' = chan
            /\ signatures' = signatures
            /\ out' = out
            /\ \A i \in Units : job'[i] = "sent" => job[i] = "sent"
       /\ exited => job' = job]_vars

\* The process gone after an error, one unit cut off before its send and
\* another whose send failed.
C10_Witness ==
    /\ exited
    /\ ret \in FileErrors
    /\ \E i \in Units : job[i] = "killed"
    /\ \E i \in Units : job[i] = "send_panicked"

\* C11: when main has returned, the output path is either untouched or
\* holds the whole map, and after a failure to create or to serialize the
\* output it is untouched.
C11_OutputAllOrNothing ==
    pc = "returned" =>
        /\ \/ out = Untouched
           \/ out = [state |-> "written", entries |-> signatures]
        /\ ret \in {"SignatureFileCreation", "SignatureSerialization"}
              => out = Untouched

\* The insertions the collector has made: the results received that carry
\* a digest.
Insertions(r) == Cardinality({k \in 1..Len(r) : r[k].tag = "Some"})

\* C12: the map changes only in a turn of the collector's loop, by the
\* insertion of the message that turn receives, and no unit of work moves
\* in that step; a message enters the channel only from a unit at its
\* send, which has then sent for good; the messages sent are as many as
\* the units that have sent, and the insertions never more than the
\* located files.
C12_OnlyCollectorInserts ==
    [][/\ signatures' # signatures =>
            /\ pc = "recv" /\ chan # <<>>
            /\ Head(chan).tag = "Some"
            /\ recvd' = Append(recvd, Head(chan))
            /\ signatures' = insert(signatures, Head(chan).name,
                                    HEXLOWER_encode(Head(chan).sha))
            /\ job' = job
       /\ Len(chan') > Len(chan) =>
            \E i \in Units :
                /\ job[i] = "computed" /\ job'[i] = "sent"
                /\ chan' = Append(chan, digest[i])
                /\ \A j \in Units \ {i} : job'[j] = job[j]
       /\ \A i \in Units : job[i] = "sent" => job'[i] = "sent"
       /\ Len(recvd') + Len(chan') = Cardinality({i \in Units : job'[i] = "sent"})
       /\ Insertions(recvd') <= N]_vars

\* Three files located, every unit has sent, and the collector has made
\* three insertions that left two entries in the map.
C12_Witness ==
    /\ N = 3
    /\ \A i \in Units : job[i] = "sent"
    /\ Insertions(recvd) = 3
    /\ Len(signatures) = 2

\* The lines the loop of find_params goes through.
XRest == RestLines(xfile.lines)

\* The loop has just gone through a params line and computed the closing
\* delimiter from it.
JustArmed ==
    /\ xpc = "scan" /\ scanI >= 2 /\ ~scan.stop
    /\ IsParamsLine(XRest[scanI - 1])

\* C13 as stated: the closing delimiter computed from a params line with n
\* leading whitespace characters is n + 1 spaces and a "}".
C13_DelimiterOneMoreSpace ==
    JustArmed =>
        scan.end = Spaces(WsCount(XRest[scanI - 1]) + 1) \o <<"}">>

\* C13 as amended: the closing delimiter computed from a params line with
\* n leading whitespace characters is n spaces and a "}", n + 1
\* characters in all.
C13_DelimiterSameWidth ==
    JustArmed =>
        /\ scan.found
        /\ scan.end = Spaces(WsCount(XRest[scanI - 1])) \o <<"}">>
        /\ Len(scan.end) = WsCount(XRest[scanI - 1]) + 1

\* The delimiter computed from a params line indented by four spaces.
C13_Witness ==
    /\ JustArmed
    /\ XRest[scanI - 1].ws = Spaces(4)

\* get_params has returned for a readable content that holds the marker.
ScannedMarked ==
    /\ xpc \in {"scanned", "visit", "done"}
    /\ xfile.readable
    /\ MarkerLine(xfile.lines) # 0

\* No params line follows the marker.
ParamsLineMissing == \A i \in 1..Len(XRest) : ~IsParamsLine(XRest[i])

\* A params line was found and no later line starts with the delimiter.
ClosingLineMissing == scan.found /\ ~scan.stop

\* The fragment has no entry keyed name, or none keyed text.
RequiredFieldMissing ==
    \E k \in {"name", "text"} :
        \A i \in 1..Len(scan.params) : scan.params[i].key # k

\* The fragment holds a line that no JSON text holds.
NotJson ==
    \E i \in 1..Len(scan.params) :
        scan.params[i].kind \in {"import", "marker", "decl", "end", "junk", "rest"}

\* C14 as stated: with the marker present, the textual extractor returns
\* the no-descriptor outcome when the params line or the closing line is
\* missing, a required field is missing or the fragment is not JSON.
C14_MissingIsNoDescriptor ==
    (ScannedMarked /\ (\/ ParamsLineMissing \/ ClosingLineMissing
                        \/ RequiredFieldMissing \/ NotJson))
        => manualRes = NoParams

\* C14 as amended: with the marker present the textual extractor never
\* returns the no-descriptor outcome; when the params line is missing, a
\* required field is missing or the fragment is not JSON it returns
\* ParamSerialization, and every error it returns is the result of the
\* unit of work, which aborts the run when received.
C14_MissingIsAnError ==
    ScannedMarked =>
        /\ manualRes.tag \in {"Some", "Err"}
        /\ (ParamsLineMissing \/ RequiredFieldMissing \/ NotJson)
              => manualRes = Failed("ParamSerialization")
        /\ manualRes.tag = "Err" =>
              \A k \in Keys :
                  /\ compute_digest(xfile, k, "Manual") = DigestErr(manualRes.err)
                  /\ Propagates(compute_digest(xfile, k, "Manual"))

\* A content of TypeScript with the marker and no params line, for which
\* get_params has returned an error.
C14_Witness ==
    /\ ScannedMarked
    /\ ParamsLineMissing
    /\ scan.params = <<>>
    /\ Len(xfile.lines) >= 2
    /\ manualRes.tag = "Err"

\* The fragment as JSON.
Block == JsonFrom(scan.params, 1, JsonInit)

\* get_params has returned for a params block that ends at its closing
\* line, is one JSON object and has a string name and a string text.
DelimitedWithNameAndText ==
    /\ ScannedMarked
    /\ scan.stop
    /\ ~Block.err /\ Block.expect = "done"
    /\ \A k \in {"name", "text"} :
          /\ Len(Entries(Block.top, k)) = 1
          /\ Entries(Block.top, k)[1].kind = "str"

\* The descriptor of the block's name and text.
BlockDescriptor ==
    SomeParams(Entries(Block.top, "name")[1].val, Entries(Block.top, "text")[1].val)

\* C15 as stated: such a block yields the descriptor of its name and text
\* whatever other fields it has.
C15_OnlyNameAndTextRequired ==
    DelimitedWithNameAndText => manualRes = BlockDescriptor

\* The block has what struct Params requires besides name and text: a
\* string cacheID, a string operationKind, a metadata of any kind, each
\* once, and at most one id, a string or null.
AuxiliaryFieldsPresent ==
    /\ \A k \in {"cacheID", "operationKind"} :
          /\ Len(Entries(Block.top, k)) = 1
          /\ Entries(Block.top, k)[1].kind = "str"
    /\ Len(Entries(Block.top, "metadata")) = 1
    /\ Len(Entries(Block.top, "id")) <= 1
    /\ \A i \in 1..Len(Entries(Block.top, "id")) :
          Entries(Block.top, "id")[i].kind \in {"str", "null"}

\* C15 as amended: such a block yields the descriptor of its name and text
\* when it also has a string cacheID, a string operationKind and a
\* metadata, with id absent, null or a string; without one of them it
\* yields ParamSerialization.
C15_AuxiliaryFieldsRequired ==
    DelimitedWithNameAndText =>
        manualRes = IF AuxiliaryFieldsPresent
                    THEN BlockDescriptor
                    ELSE Failed("ParamSerialization")

\* A block of every field but cacheID, for which get_params has returned
\* an error.
C15_Witness ==
    /\ DelimitedWithNameAndText
    /\ Entries(Block.top, "cacheID") = <<>>
    /\ Len(Entries(Block.top, "metadata")) = 1
    /\ manualRes.tag = "Err"

\* The first params line after the marker, 0 when there is none.
FirstParamsLine ==
    IF \E i \in 1..Len(XRest) : IsParamsLine(XRest[i])
    THEN CHOOSE i \in 1..Len(XRest) :
            /\ IsParamsLine(XRest[i])
            /\ \A j \in 1..(i - 1) : ~IsParamsLine(XRest[j])
    ELSE 0

\* The closing delimiter of the first params line: its indentation in
\* spaces and a "}".
FirstDelimiter == Spaces(WsCount(XRest[FirstParamsLine])) \o <<"}">>

\* The first line after the first params line that starts with its
\* closing delimiter, the last line when there is none.
TerminatingLine ==
    IF \E j \in (FirstParamsLine + 1)..Len(XRest) :
            StartsWith(LineHead(XRest[j]), FirstDelimiter)
    THEN CHOOSE j \in (FirstParamsLine + 1)..Len(XRest) :
            /\ StartsWith(LineHead(XRest[j]), FirstDelimiter)
            /\ \A k \in (FirstParamsLine + 1)..(j - 1) :
                  ~StartsWith(LineHead(XRest[k]), FirstDelimiter)
    ELSE Len(XRest)

\* C16: when a params line follows the marker, the fragment is a "{" and
\* then the lines after the first params line, as they are and in order,
\* up to and including the first that starts with the closing delimiter
\* (all of them when none does), and nothing else.
C16_FragmentIsTheBlock ==
    (ScannedMarked /\ FirstParamsLine # 0) =>
        scan.params = <<LBrace>> \o SubSeq(XRest, FirstParamsLine + 1, TerminatingLine)

\* The node at which the walk entered InParams: the first property keyed
\* "params" it visited, 0 when it visited none.
ParamsNode ==
    IF \E i \in visited : XNodes[i].key = "params"
    THEN CHOOSE i \in visited :
            /\ XNodes[i].key = "params"
            /\ \A j \in visited : XNodes[j].key = "params" => i <= j
    ELSE 0

\* The string-valued entries of a key visited after InParams was entered.
StringEntries(k) ==
    {i \in visited :
        /\ ParamsNode # 0 /\ i > ParamsNode
        /\ XNodes[i].key = k /\ XNodes[i].vkind = "str"}

\* The first of a set of nodes.
First(S) == CHOOSE i \in S : \A j \in S : i <= j

\* C17: the structural extractor returns a descriptor only if, after
\* entering InParams, it visited a string-valued "name" entry and a
\* string-valued "text" entry, and the name and text it returns are those
\* of the first such entry of each key.
C17_FirstNameAndFirstText ==
    (xpc = "done" /\ swcRes.tag = "Some") =>
        /\ StringEntries("name") # {}
        /\ StringEntries("text") # {}
        /\ swcRes.name = XNodes[First(StringEntries("name"))].val
        /\ swcRes.text = XNodes[First(StringEntries("text"))].val

\* The string-valued name and text entries inside the object literal that
\* is the value of the params key.
InParamsObject ==
    {i \in StringEntries("name") \cup StringEntries("text") :
        /\ XNodes[ParamsNode].vkind = "obj"
        /\ i < SkipSubtree(XNodes, ParamsNode)}

\* C18: whatever the collector has recorded comes from entries inside the
\* params object: it has recorded no more fields than it visited such
\* entries, and the name and the text it holds are values of such entries
\* of that key.
C18_RecordsInsideParamsOnly ==
    xpc \in {"visit", "done"} =>
        /\ collector.done <= Cardinality(InParamsObject \cap visited)
        /\ collector.name # <<>> =>
              \E i \in InParamsObject :
                  XNodes[i].key = "name" /\ XNodes[i].val = collector.name
        /\ collector.text # <<>> =>
              \E i \in InParamsObject :
                  XNodes[i].key = "text" /\ XNodes[i].val = collector.text

\* C19: the collector's counter is never above 2; when it is 2, a visit
\* leaves the name, the text, the params flag and the counter as they are
\* and the walk goes on at the next node that is not below the visited
\* one, so that none of its children is visited.
C19_DoneIsFinal ==
    /\ [](collector.done \in 0..2)
    /\ [][(xpc = "visit" /\ collector.done = 2) =>
            /\ collector' = collector
            /\ visitI' # visitI =>
                  /\ visited' = visited \cup {visitI}
                  /\ visitI' > visitI
                  /\ \A k \in (visitI + 1)..(visitI' - 1) :
                        XNodes[k].depth > XNodes[visitI].depth
                  /\ visitI' <= Len(XNodes) =>
                        XNodes[visitI'].depth <= XNodes[visitI].depth]_vars

\* Both fields recorded, then an entry with children visited and the walk
\* gone past its children without visiting them.
C19_Witness ==
    /\ xpc = "visit"
    /\ collector.done = 2
    /\ \E i \in visited :
          /\ i + 1 <= Len(XNodes)
          /\ XNodes[i].vkind = "obj"
          /\ XNodes[i + 1].depth > XNodes[i].depth
          /\ (i + 1) \notin visited
          /\ visitI > i + 1

\* The results received that carry a digest of a given name.
ReceivedFor(name) ==
    {k \in 1..Len(recvd) : recvd[k].tag = "Some" /\ recvd[k].name = name}

\* The last of a set of positions.
Last(S) == CHOOSE k \in S : \A j \in S : j <= k

\* The value of every entry of a map is the digest of the result received
\* last for its name.
LastReceivedWins(m) ==
    \A i \in 1..Len(m) :
        /\ ReceivedFor(m[i].name) # {}
        /\ m[i].hash = HEXLOWER_encode(recvd[Last(ReceivedFor(m[i].name))].sha)

\* C20: in the collector's map and in whatever is written to the output,
\* the value of a name is the digest carried by the result the collector
\* received last for that name, also when several files yield the name
\* with different texts.
C20_LastInsertWins ==
    /\ LastReceivedWins(signatures)
    /\ out.state \in {"written", "partial"} => LastReceivedWins(out.entries)

\* Two files of one name and different texts, the result of the second
\* received first, and the output written with the digest of the first.
C20_Witness ==
    /\ out.state = "written"
    /\ N = 2
    /\ Len(recvd) = 2
    /\ recvd[1] = digest[2] /\ recvd[2] = digest[1]
    /\ recvd[1].tag = "Some" /\ recvd[2].tag = "Some"
    /\ recvd[1].name = recvd[2].name
    /\ recvd[1].sha # recvd[2].sha
    /\ out.entries = <<Entry(recvd[2].name, HEXLOWER_encode(digest[1].sha))>>

====
